---- MODULE Spec2Model ----
(***************************************************************************)
(* Model of src/main.py: EnhancedG29Controller (the input translation      *)
(* engine), VirtualController (the virtual-pad sink) and the two calls of   *)
(* the presentation thread that touch the engine while it runs             *)
(* (EnhancedG29Controller.stop, EnhancedG29GUI.update_config_from_gui).     *)
(*                                                                         *)
(* Analog values are fixed point, 1000 = 1.0; times are milliseconds.      *)
(* The engine thread is a sequence of steps, one per handler of update();  *)
(* handle_steering_keyboard is two steps, one per key call, so that the    *)
(* state between its press_key and its release_key is a state of the model.*)
(***************************************************************************)
EXTENDS Integers, Sequences, FiniteSets, TLC

VARIABLES
    cfg,                 \* the shared WheelConfig object
    dev,                 \* the joystick found: its axis, button and hat counts
    lfo_age,             \* time.time() - self.last_lfo_time, ms, up to AgeCap
    ticks,               \* loop iterations so far whose update() got to its handlers
    flaky,               \* the key injector can raise in this run
    faults,              \* an injector call has raised
    pc,                  \* position of the engine thread
    running,             \* self.running
    wheel,               \* self.wheel is not None
    wheelOpen,           \* the pygame joystick is initialised
    pygameUp,            \* pygame is initialised
    pend,                \* key calls of handle_steering_keyboard still to make
    chk,                 \* the results of is_roblox_active() in the current tick
    keys,                \* self.current_keys_pressed
    down,                \* keys the OS holds down (successful injector events)
    alternates,          \* no key got two presses or two releases in a row
    events,              \* sink calls made by the last step of the engine or of stop()
    lfo_state,           \* self.lfo_state
    last_steering_value, \* self.last_steering_value
    button_states,       \* self.button_states
    dpad_states,         \* self.dpad_states
    frame,               \* button and hat values the joystick holds in the current tick
    steer_mode,          \* the control_mode handle_steering read, until handle_pedals reads it
    calc,                \* a call of a conditioning function: its arguments and result
    vc,                  \* VirtualController fields
    gp,                  \* state of the virtual-pad driver (vgamepad)
    gpc,                 \* position of the presentation thread
    stopList,            \* list(self.current_keys_pressed) taken by stop()
    stopInTick,          \* the last stop() began while the engine was inside update()
    status,              \* what the status label and the Start / Stop buttons show
    clean,               \* no engine step and no fault since stop() began
    cleanStops           \* consecutive clean stop() calls that returned (0, 1, 2+)

vars == <<cfg, dev, lfo_age, ticks, flaky, faults, pc, running, wheel, wheelOpen,
          pygameUp, pend, chk, keys, down, alternates, events,
          lfo_state, last_steering_value, button_states,
          dpad_states, frame, steer_mode, calc, vc, gp, gpc, stopList, stopInTick, status,
          clean, cleanStops>>

(***************************************************************************)
(* Bounds of the model.                                                    *)
(***************************************************************************)
\* loop iterations explored in a run where injector calls can raise
MaxTicks == 2
\* loop iterations explored in a run where no injector call raises
MaxQuietTicks == 4

(***************************************************************************)
(* Program constants.                                                      *)
(***************************************************************************)
InnerThreshold == 20
PedalThreshold == 100
TickMs == 16
MinFrequency == 5
ErrSleepMs == 100
StickMax == 32767
TriggerMax == 255

Abs(x) == IF x < 0 THEN -x ELSE x
Sign(x) == IF x < 0 THEN -1 ELSE IF x > 0 THEN 1 ELSE 0
\* int(): truncation toward zero of n/d, d > 0
TruncDiv(n, d) == Sign(n) * (Abs(n) \div d)
\* no clamping
Clamp_none(lo, hi, x) == x

Clamp(lo, hi, x) == IF x < lo THEN lo ELSE IF x > hi THEN hi ELSE x
Get(d, k, default) == IF k \in DOMAIN d THEN d[k] ELSE default
Put(d, k, v) == [x \in DOMAIN d \cup {k} |-> IF x = k THEN v ELSE d[x]]

KEYBOARD == "keyboard"
MOUSE_STEERING == "mouse"
VIRTUAL_XBOX == "virtual_xbox"
HYBRID == "hybrid"
ControlMode == {KEYBOARD, MOUSE_STEERING, VIRTUAL_XBOX, HYBRID}
\* handle_steering has read no control_mode in this tick
NoMode == "none"

NoKey == "none"
Directions == <<"up", "down", "left", "right">>
dpad_mappings == [up |-> "1", down |-> "2", left |-> "3", right |-> "4"]
xbox_button_map == {"x", "a", "b", "y", "lb", "rb", "start", "back"}
NamedKeys == {"space", "ctrl", "shift", "tab", "esc", "enter"}

\* WheelConfig with the defaults of the dataclass; button 0 is bound to a
\* name that is both a keyboard key and a virtual-pad button.
WheelConfig(mode, lfo) ==
    [control_mode |-> mode,
     steering_sensitivity |-> 1000,
     steering_deadzone |-> 50,
     mouse_sensitivity |-> 3000,
     throttle_key |-> "w",
     brake_key |-> "s",
     keyboard_steering_lfo |-> lfo,
     keyboard_steering_frequency |-> 10,
     swap_brake_clutch |-> FALSE,
     invert_mouse_steering |-> FALSE,
     mouse_return_center |-> TRUE,
     mouse_return_speed |-> 950,
     controller_steering_range |-> 1000,
     controller_stick_mode |-> "left",
     controller_throttle_axis |-> "left_y",
     button_mappings |-> [b \in {0} |-> "x"]]

\* the configurations the presentation thread can write (Hybrid routes
\* exactly as MouseSteering does)
Configs == {WheelConfig(KEYBOARD, TRUE), WheelConfig(KEYBOARD, FALSE),
            WheelConfig(MOUSE_STEERING, TRUE), WheelConfig(VIRTUAL_XBOX, TRUE)}

\* Joysticks find_g29 can pick (any device named *logitech* or *g29*):
\* a bare wheel, a button box, a hat.
Device(a, b, h) == [numaxes |-> a, numbuttons |-> b, numhats |-> h]
Devices == {Device(1, 0, 0), Device(0, 1, 0), Device(0, 0, 1)}

\* Raw device values a read can deliver.
SteerVals == {-800, 0, 800}
PedalVals == {-1000, 1000}
HatVals == {<<0, 0>>, <<1, 0>>}
\* The code reads last_lfo_time only in time.time() - last_lfo_time, so the
\* model keeps that age.  All ages from the longest LFO period on (lowest
\* frequency of the slider, no deflection) read alike and are kept as AgeCap;
\* last_lfo_time = 0.0 at construction is such an age.
AgeCap == (2000 * 1000) \div (MinFrequency * 1000)
Min(a, b) == IF a < b THEN a ELSE b
\* time.sleep(0.016) plus the tick's own work: one tick, or a late wake-up
TickDeltas == {TickMs, 4 * TickMs}

(***************************************************************************)
(* SignalConditioner: pure functions.                                      *)
(***************************************************************************)
\* the rescaling without the shift by the deadzone
apply_deadzone_unshifted(value, deadzone) ==
    IF Abs(value) < deadzone THEN 0
    ELSE TruncDiv(value * 1000, 1000 - deadzone)

\* the shift by the deadzone without the rescaling
apply_deadzone_unscaled(value, deadzone) ==
    IF Abs(value) < deadzone THEN 0
    ELSE IF value > 0 THEN value - deadzone
    ELSE value + deadzone

apply_deadzone(value, deadzone) ==
    IF Abs(value) < deadzone THEN 0
    ELSE IF value > 0 THEN TruncDiv((value - deadzone) * 1000, 1000 - deadzone)
    ELSE TruncDiv((value + deadzone) * 1000, 1000 - deadzone)

apply_steering_range(steering_value) == steering_value

\* no smoothing: the target taken as it is
smooth_value_unsmoothed(current, target, smoothing) == target

smooth_value(current, target, smoothing) ==
    current + TruncDiv((target - current) * smoothing, 1000)

\* (raw + 1) / 2 of handle_pedals
normalize_pedal(raw) == (raw + 1000) \div 2

\* steering value of handle_steering_keyboard after deadzone and sensitivity
conditioned_steering(c, raw) ==
    TruncDiv(apply_steering_range(apply_deadzone(raw, c.steering_deadzone))
             * c.steering_sensitivity, 1000)

\* frequency = base * (0.5 + intensity * 1.5), in mHz
lfo_frequency(c, s) == (c.keyboard_steering_frequency * (1000 + 3 * Abs(s))) \div 2

\* current_time - last_lfo_time >= 1.0 / frequency, without rounding:
\* elapsed/1000 >= 2000 / (base * (1000 + 3|s|))
period_elapsed(c, s, elapsed) ==
    elapsed * c.keyboard_steering_frequency * (1000 + 3 * Abs(s)) >= 2000 * 1000

(***************************************************************************)
(* KeyboardSink: press_key / release_key on a record                       *)
(* [keys, down, alternates, faults, ev].  fk is the key whose injection    *)
(* raises during the current step (NoKey: none does).                      *)
(***************************************************************************)
\* the keys the configurations of the model can bind
AllKeys == {"a", "d", "w", "s", "x", "1", "2", "3", "4"}

\* pynput accepts a Key member or a single character
Injectable(key_str) == key_str \in NamedKeys \/ Len(key_str) = 1

Ev(op, key, ok) == [op |-> op, key |-> key, val |-> 0, ok |-> ok]
EvVal(op, val, ok) == [op |-> op, key |-> NoKey, val |-> val, ok |-> ok]

KeySink == [keys |-> keys, down |-> down, alternates |-> alternates,
            faults |-> faults, ev |-> <<>>]

\* press_key without its test of the pressed set
press_key_untested(K, key_str, fk) ==
    IF fk = key_str \/ ~Injectable(key_str)
    THEN [K EXCEPT !.ev = Append(@, Ev("press", key_str, FALSE)),
                   !.faults = TRUE]
    ELSE [K EXCEPT !.keys = @ \cup {key_str},
                   !.down = @ \cup {key_str},
                   !.alternates = @ /\ key_str \notin K.down,
                   !.ev = Append(@, Ev("press", key_str, TRUE))]

\* release_key without its test of the pressed set
release_key_untested(K, key_str, fk) ==
    IF fk = key_str \/ ~Injectable(key_str)
    THEN [K EXCEPT !.ev = Append(@, Ev("release", key_str, FALSE)),
                   !.faults = TRUE]
    ELSE [K EXCEPT !.keys = @ \ {key_str},
                   !.down = @ \ {key_str},
                   !.alternates = @ /\ key_str \in K.down,
                   !.ev = Append(@, Ev("release", key_str, TRUE))]

\* press_key adding the key to the pressed set before it injects
press_key_add_first(K, key_str, fk) ==
    IF key_str \in K.keys THEN K
    ELSE IF fk = key_str \/ ~Injectable(key_str)
    THEN [K EXCEPT !.keys = @ \cup {key_str},
                   !.ev = Append(@, Ev("press", key_str, FALSE)),
                   !.faults = TRUE]
    ELSE [K EXCEPT !.keys = @ \cup {key_str},
                   !.down = @ \cup {key_str},
                   !.alternates = @ /\ key_str \notin K.down,
                   !.ev = Append(@, Ev("press", key_str, TRUE))]

press_key(K, key_str, fk) ==
    IF key_str \in K.keys THEN K
    ELSE IF fk = key_str \/ ~Injectable(key_str)
    THEN [K EXCEPT !.ev = Append(@, Ev("press", key_str, FALSE)),
                   !.faults = TRUE]
    ELSE [K EXCEPT !.keys = @ \cup {key_str},
                   !.down = @ \cup {key_str},
                   !.alternates = @ /\ key_str \notin K.down,
                   !.ev = Append(@, Ev("press", key_str, TRUE))]

release_key(K, key_str, fk) ==
    IF key_str \notin K.keys THEN K
    ELSE IF fk = key_str \/ ~Injectable(key_str)
    THEN [K EXCEPT !.ev = Append(@, Ev("release", key_str, FALSE)),
                   !.faults = TRUE]
    ELSE [K EXCEPT !.keys = @ \ {key_str},
                   !.down = @ \ {key_str},
                   !.alternates = @ /\ key_str \in K.down,
                   !.ev = Append(@, Ev("release", key_str, TRUE))]

Call(op, key) == [op |-> op, key |-> key]

DoCall(K, call, fk) ==
    IF call.op = "press" THEN press_key(K, call.key, fk)
    ELSE release_key(K, call.key, fk)

RECURSIVE RunCalls(_, _, _)
RunCalls(K, calls, fk) ==
    IF calls = <<>> THEN K
    ELSE RunCalls(DoCall(K, Head(calls), fk), Tail(calls), fk)

\* the keys whose injection may raise in one step
FaultKeys == {NoKey} \cup (IF flaky THEN AllKeys ELSE {})

(***************************************************************************)
(* OscillatingKeyEmulator: handle_steering_keyboard.  The result is the    *)
(* key calls it makes, in order, and the oscillator state it leaves.       *)
(***************************************************************************)
\* the press of the new direction without the release of the other
steer_calls_press_only(s) ==
    IF s > 0 THEN <<Call("press", "d")>> ELSE <<Call("press", "a")>>

steer_calls(s) ==
    IF s > 0 THEN <<Call("press", "d"), Call("release", "a")>>
    ELSE <<Call("press", "a"), Call("release", "d")>>

release_both == <<Call("release", "a"), Call("release", "d")>>

\* the oscillator flipping without taking the time of the flip
handle_steering_keyboard_no_stamp(c, steering_value, lfo, age) ==
    LET s == conditioned_steering(c, steering_value)
        idle == [calls |-> <<>>, lfo_state |-> lfo, lfo_age |-> age]
    IN  IF Abs(s) < InnerThreshold
        THEN [idle EXCEPT !.calls = release_both]
        ELSE IF c.keyboard_steering_lfo
        THEN IF period_elapsed(c, s, age)
             THEN [calls |-> IF ~lfo THEN steer_calls(s) ELSE release_both,
                   lfo_state |-> ~lfo,
                   lfo_age |-> age]
             ELSE idle
        ELSE [idle EXCEPT !.calls = steer_calls(s)]

\* the steady mode pressing its key without releasing the other
handle_steering_keyboard_press_only(c, steering_value, lfo, age) ==
    LET s == conditioned_steering(c, steering_value)
        idle == [calls |-> <<>>, lfo_state |-> lfo, lfo_age |-> age]
    IN  IF Abs(s) < InnerThreshold
        THEN [idle EXCEPT !.calls = release_both]
        ELSE IF c.keyboard_steering_lfo
        THEN IF period_elapsed(c, s, age)
             THEN [calls |-> IF ~lfo THEN steer_calls(s) ELSE release_both,
                   lfo_state |-> ~lfo,
                   lfo_age |-> 0]
             ELSE idle
        ELSE [idle EXCEPT !.calls = <<Head(steer_calls(s))>>]

handle_steering_keyboard(c, steering_value, lfo, age) ==
    LET s == conditioned_steering(c, steering_value)
        idle == [calls |-> <<>>, lfo_state |-> lfo, lfo_age |-> age]
    IN  IF Abs(s) < InnerThreshold
        THEN [idle EXCEPT !.calls = release_both]
        ELSE IF c.keyboard_steering_lfo
        THEN IF period_elapsed(c, s, age)
             THEN [calls |-> IF ~lfo THEN steer_calls(s) ELSE release_both,
                   lfo_state |-> ~lfo,
                   lfo_age |-> 0]
             ELSE idle
        ELSE [idle EXCEPT !.calls = steer_calls(s)]

(***************************************************************************)
(* MouseSink: handle_steering_mouse.  The result is the new                *)
(* last_steering_value and the mouse calls made.                           *)
(***************************************************************************)
handle_steering_mouse(c, steering_value, last) ==
    LET dz == apply_steering_range(apply_deadzone(steering_value, c.steering_deadzone))
        s == IF c.invert_mouse_steering THEN -dz ELSE dz
        target_movement == TruncDiv(s * c.mouse_sensitivity, 1000)
        smooth_movement == smooth_value(last, target_movement, 300)
    IN  IF Abs(smooth_movement) > 100
        THEN [last_steering_value |-> smooth_movement,
              ev |-> <<EvVal("move", TruncDiv(smooth_movement * 10, 1000), TRUE)>>]
        ELSE IF c.mouse_return_center /\ Abs(s) < 50
        THEN [last_steering_value |-> TruncDiv(smooth_movement * c.mouse_return_speed, 1000),
              ev |-> <<>>]
        ELSE [last_steering_value |-> smooth_movement, ev |-> <<>>]

(***************************************************************************)
(* VirtualPadSink: VirtualController on a record [vc, gp, ev].             *)
(***************************************************************************)
PadSink == [vc |-> vc, gp |-> gp, ev |-> <<>>]

apply_stick_outputs(P, c) ==
    LET left == c.controller_stick_mode = "left"
        right == c.controller_stick_mode = "right"
    IN  [P EXCEPT
          !.gp.lx = IF left THEN TruncDiv(P.vc.current_left_x * StickMax, 1000) ELSE 0,
          !.gp.ly = IF left THEN TruncDiv(P.vc.current_left_y * StickMax, 1000) ELSE 0,
          !.gp.rx = IF right THEN TruncDiv(P.vc.current_right_x * StickMax, 1000) ELSE 0,
          !.gp.ry = IF right THEN TruncDiv(P.vc.current_right_y * StickMax, 1000) ELSE 0,
          !.ev = Append(@, Ev("pad_update", NoKey, TRUE))]

update_steering(P, c, steering_value) ==
    IF ~P.vc.connected THEN P
    ELSE LET s == Clamp(-1000, 1000, steering_value)
             Q == IF c.controller_stick_mode = "left"
                  THEN [P EXCEPT !.vc.current_left_x = s]
                  ELSE IF c.controller_stick_mode = "right"
                  THEN [P EXCEPT !.vc.current_right_x = s]
                  ELSE P
         IN  apply_stick_outputs(Q, c)

update_throttle_brake(P, c, throttle, brake) ==
    IF ~P.vc.connected THEN P
    ELSE LET axis == c.controller_throttle_axis
             t == Clamp(-1000, 1000, throttle)
             b == Clamp(-1000, 1000, brake)
             Q == CASE axis = "triggers" ->
                         [P EXCEPT
                           !.gp.rt = TruncDiv(Clamp(0, 1000, 1000 - throttle) * TriggerMax, 1000),
                           !.gp.lt = TruncDiv(Clamp(0, 1000, 1000 - brake) * TriggerMax, 1000),
                           !.vc.current_right_trigger = throttle,
                           !.vc.current_left_trigger = brake]
                    [] axis = "left_x" -> [P EXCEPT !.vc.current_left_x = t]
                    [] axis = "left_y" -> [P EXCEPT !.vc.current_left_y = t]
                    [] axis = "right_x" -> [P EXCEPT !.vc.current_right_x = b]
                    [] axis = "right_y" -> [P EXCEPT !.vc.current_right_y = b]
                    [] OTHER -> P
         IN  apply_stick_outputs(Q, c)

press_button(P, button) ==
    IF ~P.vc.connected THEN P
    ELSE IF button \in xbox_button_map
    THEN [P EXCEPT !.gp.buttons = @ \cup {button},
                   !.ev = Append(Append(@, Ev("pad_press", button, TRUE)),
                                 Ev("pad_update", NoKey, TRUE))]
    ELSE P

release_button(P, button) ==
    IF ~P.vc.connected THEN P
    ELSE IF button \in xbox_button_map
    THEN [P EXCEPT !.gp.buttons = @ \ {button},
                   !.ev = Append(Append(@, Ev("pad_release", button, TRUE)),
                                 Ev("pad_update", NoKey, TRUE))]
    ELSE P

disconnect(P) ==
    IF P.vc.connected
    THEN [P EXCEPT !.gp.lx = 0, !.gp.ly = 0, !.gp.rx = 0, !.gp.ry = 0,
                   !.gp.lt = 0, !.gp.rt = 0,
                   !.ev = Append(@, Ev("pad_update", NoKey, TRUE)),
                   !.vc.connected = FALSE]
    ELSE P

handle_steering_virtual_xbox(P, c, steering_value) ==
    LET s == Clamp(-1000, 1000,
                   TruncDiv(apply_steering_range(apply_deadzone(steering_value, c.steering_deadzone))
                            * c.controller_steering_range, 1000))
    IN  IF ~P.vc.connected THEN P ELSE update_steering(P, c, s)

(***************************************************************************)
(* Pedals.                                                                 *)
(***************************************************************************)
\* the threshold test of handle_pedals_keyboard taken as >=
pedal_call_at_threshold(value, key) ==
    IF value >= PedalThreshold THEN Call("press", key) ELSE Call("release", key)

pedal_call(value, key) ==
    IF value > PedalThreshold THEN Call("press", key) ELSE Call("release", key)

handle_pedals_keyboard(K, c, throttle, brake, fk) ==
    RunCalls(K, <<pedal_call(throttle, c.throttle_key),
                  pedal_call(brake, c.brake_key)>>, fk)

handle_pedals_virtual_xbox(P, c, throttle, brake) ==
    update_throttle_brake(P, c, throttle, brake)

\* handle_pedals without its focus check
handle_pedals_unfocused(S, c, foc, throttle, brake, fk) ==
    IF c.control_mode = VIRTUAL_XBOX
    THEN [S EXCEPT !.P = handle_pedals_virtual_xbox(S.P, c, normalize_pedal(throttle),
                                                    normalize_pedal(brake))]
    ELSE [S EXCEPT !.K = handle_pedals_keyboard(S.K, c, normalize_pedal(throttle),
                                                normalize_pedal(brake), fk)]

\* handle_pedals behind its focus check, on a record [K, P]
handle_pedals(S, c, foc, throttle, brake, fk) ==
    IF ~foc THEN S
    ELSE IF c.control_mode = VIRTUAL_XBOX
    THEN [S EXCEPT !.P = handle_pedals_virtual_xbox(S.P, c, normalize_pedal(throttle),
                                                    normalize_pedal(brake))]
    ELSE [S EXCEPT !.K = handle_pedals_keyboard(S.K, c, normalize_pedal(throttle),
                                                normalize_pedal(brake), fk)]

(***************************************************************************)
(* EdgeTracker: handle_buttons and handle_dpad, on a record                *)
(* [K, P, states].                                                         *)
(***************************************************************************)
EmptyDict == [x \in {} |-> FALSE]

\* no conditioning function called
NoCalc == [op |-> "none"]

\* before handle_buttons and handle_dpad of a tick: nothing looked at yet
NoFrame == [buttons |-> <<>>, hats |-> <<>>]

\* the iteration without its closing write of button_states
button_step_no_record(S, c, button_id, button_pressed, fk) ==
    LET was_pressed == Get(S.states, button_id, FALSE)
        mapped == button_id \in DOMAIN c.button_mappings
        key == c.button_mappings[button_id]
        toPad == c.control_mode = VIRTUAL_XBOX /\ key \in xbox_button_map
    IN  IF button_pressed /\ ~was_pressed /\ mapped
        THEN IF toPad THEN [S EXCEPT !.P = press_button(S.P, key)]
             ELSE [S EXCEPT !.K = press_key(S.K, key, fk)]
        ELSE IF ~button_pressed /\ was_pressed /\ mapped
        THEN IF toPad THEN [S EXCEPT !.P = release_button(S.P, key)]
             ELSE [S EXCEPT !.K = release_key(S.K, key, fk)]
        ELSE S

\* the iteration with a button never seen before taken as pressed
button_step_unknown_pressed(S, c, button_id, button_pressed, fk) ==
    LET was_pressed == Get(S.states, button_id, TRUE)
        mapped == button_id \in DOMAIN c.button_mappings
        key == c.button_mappings[button_id]
        toPad == c.control_mode = VIRTUAL_XBOX /\ key \in xbox_button_map
        T == IF button_pressed /\ ~was_pressed /\ mapped
             THEN IF toPad THEN [S EXCEPT !.P = press_button(S.P, key)]
                  ELSE [S EXCEPT !.K = press_key(S.K, key, fk)]
             ELSE IF ~button_pressed /\ was_pressed /\ mapped
             THEN IF toPad THEN [S EXCEPT !.P = release_button(S.P, key)]
                  ELSE [S EXCEPT !.K = release_key(S.K, key, fk)]
             ELSE S
    IN  [T EXCEPT !.states = Put(S.states, button_id, button_pressed)]

\* one iteration of the loop over button ids
button_step(S, c, button_id, button_pressed, fk) ==
    LET was_pressed == Get(S.states, button_id, FALSE)
        mapped == button_id \in DOMAIN c.button_mappings
        key == c.button_mappings[button_id]
        toPad == c.control_mode = VIRTUAL_XBOX /\ key \in xbox_button_map
        T == IF button_pressed /\ ~was_pressed /\ mapped
             THEN IF toPad THEN [S EXCEPT !.P = press_button(S.P, key)]
                  ELSE [S EXCEPT !.K = press_key(S.K, key, fk)]
             ELSE IF ~button_pressed /\ was_pressed /\ mapped
             THEN IF toPad THEN [S EXCEPT !.P = release_button(S.P, key)]
                  ELSE [S EXCEPT !.K = release_key(S.K, key, fk)]
             ELSE S
    IN  [T EXCEPT !.states = Put(S.states, button_id, button_pressed)]

RECURSIVE button_loop(_, _, _, _, _)
button_loop(S, c, ids, buttons, fk) ==
    IF ids = {} THEN S
    ELSE LET id == CHOOSE i \in ids : \A j \in ids : i <= j
         IN  button_loop(button_step(S, c, id, buttons[id], fk), c, ids \ {id}, buttons, fk)

\* handle_buttons writing its table in an unfocused call too
handle_buttons_record_unfocused(S, c, foc, buttons, fk) ==
    IF DOMAIN c.button_mappings = {} THEN S
    ELSE IF ~foc THEN [S EXCEPT !.states = [b \in DOMAIN buttons |-> buttons[b]]]
    ELSE button_loop(S, c, DOMAIN buttons, buttons, fk)

\* buttons[i] is wheel.get_button(i)
handle_buttons(S, c, foc, buttons, fk) ==
    IF ~foc \/ DOMAIN c.button_mappings = {} THEN S
    ELSE button_loop(S, c, DOMAIN buttons, buttons, fk)

current_dpad(hat_value) ==
    [up |-> hat_value[2] = 1, down |-> hat_value[2] = -1,
     left |-> hat_value[1] = -1, right |-> hat_value[1] = 1]

dpad_step(S, hat_id, direction, pressed, fk) ==
    LET was_pressed == Get(S.states, <<hat_id, direction>>, FALSE)
        key == dpad_mappings[direction]
        T == IF pressed /\ ~was_pressed THEN [S EXCEPT !.K = press_key(S.K, key, fk)]
             ELSE IF ~pressed /\ was_pressed THEN [S EXCEPT !.K = release_key(S.K, key, fk)]
             ELSE S
    IN  [T EXCEPT !.states = Put(S.states, <<hat_id, direction>>, pressed)]

RECURSIVE direction_loop(_, _, _, _, _)
direction_loop(S, hat_id, dirs, hat_value, fk) ==
    IF dirs = <<>> THEN S
    ELSE direction_loop(dpad_step(S, hat_id, Head(dirs), current_dpad(hat_value)[Head(dirs)], fk),
                        hat_id, Tail(dirs), hat_value, fk)

\* hats[i] is wheel.get_hat(i - 1)
RECURSIVE hat_loop(_, _, _, _)
hat_loop(S, i, hats, fk) ==
    IF i > Len(hats) THEN S
    ELSE hat_loop(direction_loop(S, i - 1, Directions, hats[i], fk), i + 1, hats, fk)

handle_dpad(S, foc, hats, fk) ==
    IF ~foc THEN S ELSE hat_loop(S, 1, hats, fk)

(***************************************************************************)
(* ModeRouter: handle_steering behind its focus check.  st is              *)
(* [lfo_state, lfo_age, last_steering_value, P]; the result adds the       *)
(* key calls handle_steering_keyboard makes and the mouse calls made.      *)
(***************************************************************************)
SteerState == [lfo_state |-> lfo_state, lfo_age |-> lfo_age,
               last_steering_value |-> last_steering_value, P |-> PadSink,
               calls |-> <<>>, ev |-> <<>>]

handle_steering(st, c, foc, steering_value) ==
    IF ~foc THEN st
    ELSE IF c.control_mode = KEYBOARD
    THEN LET r == handle_steering_keyboard(c, steering_value, st.lfo_state, st.lfo_age)
         IN  [st EXCEPT !.calls = r.calls, !.lfo_state = r.lfo_state,
                        !.lfo_age = r.lfo_age]
    ELSE IF c.control_mode \in {MOUSE_STEERING, HYBRID}
    THEN LET r == handle_steering_mouse(c, steering_value, st.last_steering_value)
         IN  [st EXCEPT !.last_steering_value = r.last_steering_value, !.ev = r.ev]
    ELSE IF c.control_mode = VIRTUAL_XBOX
    THEN [st EXCEPT !.P = handle_steering_virtual_xbox(st.P, c, steering_value)]
    ELSE st

\* the pedal axes update() passes to handle_pedals (lines 666-685);
\* ax[i] is wheel.get_axis(i)
pedal_axes(n, ax, swap) ==
    LET throttle == IF n > 1 THEN ax[1] ELSE 0
        brake == IF n > 2 THEN ax[2] ELSE 0
        clutch == IF n > 3 THEN ax[3] ELSE 0
    IN  [throttle |-> throttle,
         brake |-> IF swap THEN clutch ELSE brake,
         clutch |-> IF swap THEN brake ELSE clutch]

(***************************************************************************)
(* State after EnhancedG29GUI.start_interface has built the controller and *)
(* launched the engine thread on EnhancedG29Controller.start.              *)
(***************************************************************************)
InitState ==
    /\ \E c \in Configs, avail \in BOOLEAN :
         /\ vc = [connected |-> avail,
                  current_left_x |-> 0, current_left_y |-> 0,
                  current_right_x |-> 0, current_right_y |-> 0,
                  current_left_trigger |-> 0, current_right_trigger |-> 0]
         /\ cfg = IF c.control_mode = VIRTUAL_XBOX /\ ~avail
                  THEN [c EXCEPT !.control_mode = MOUSE_STEERING] ELSE c
    /\ dev \in Devices
    /\ lfo_age = AgeCap
    /\ ticks = 0
    /\ pc = "start"
    /\ running = FALSE
    /\ wheel = FALSE
    /\ wheelOpen = FALSE
    /\ pygameUp = TRUE
    /\ pend = <<>>
    /\ chk = {}
    /\ keys = {}
    /\ down = {}
    /\ alternates = TRUE
    /\ events = <<>>
    /\ lfo_state = FALSE
    /\ last_steering_value = 0
    /\ button_states = EmptyDict
    /\ dpad_states = EmptyDict
    /\ frame = NoFrame
    /\ steer_mode = NoMode
    /\ calc = NoCalc
    /\ gp = [lx |-> 0, ly |-> 0, rx |-> 0, ry |-> 0, lt |-> 0, rt |-> 0, buttons |-> {}]
    /\ gpc = "idle"
    /\ stopList = {}
    /\ stopInTick = FALSE
    /\ status = "Stopped"
    /\ clean = FALSE
    /\ cleanStops = 0
    /\ faults = FALSE

Init ==
    /\ InitState
    /\ flaky = TRUE

\* what every step of the engine thread does to the bookkeeping of stop()
EngineStep == clean' = FALSE /\ cleanStops' = 0

SetKeySink(K) ==
    /\ keys' = K.keys
    /\ down' = K.down
    /\ alternates' = K.alternates
    /\ faults' = K.faults

SetPadSink(P) == vc' = P.vc /\ gp' = P.gp

deviceVars == <<dev, flaky, wheel, wheelOpen, pygameUp>>
keyVars == <<keys, down, alternates, faults>>
padVars == <<vc, gp>>
lfoVars == <<lfo_state, lfo_age>>
edgeVars == <<button_states, dpad_states>>
guiVars == <<gpc, stopList, stopInTick, status>>

\* the positions of the engine thread inside update()
TickPcs == {"steer", "steer2", "pedals", "buttons", "dpad"}

(***************************************************************************)
(* The engine thread: EnhancedG29Controller.start and update.              *)
(***************************************************************************)
\* start() without the raise: it goes on when find_g29 found no wheel
Start_no_raise ==
    /\ pc = "start"
    /\ \E found \in BOOLEAN :
         IF pygameUp /\ found
         THEN wheel' = TRUE /\ wheelOpen' = TRUE /\ pc' = "setrun"
         ELSE UNCHANGED <<wheel, wheelOpen>> /\ pc' = "setrun"
    /\ events' = <<>>
    /\ EngineStep
    /\ UNCHANGED <<steer_mode, calc>>
    /\ UNCHANGED frame
    /\ UNCHANGED <<cfg, dev, flaky, ticks, running, pygameUp, pend, chk,
                   keyVars, padVars, lfoVars, last_steering_value, edgeVars, guiVars>>

\* find_g29 (line 699): raises when pygame was quit or no wheel matches
Start ==
    /\ pc = "start"
    /\ \E found \in BOOLEAN :
         IF pygameUp /\ found
         THEN wheel' = TRUE /\ wheelOpen' = TRUE /\ pc' = "setrun"
         ELSE UNCHANGED <<wheel, wheelOpen>> /\ pc' = "failed"
    /\ events' = <<>>
    /\ EngineStep
    /\ UNCHANGED <<steer_mode, calc>>
    /\ UNCHANGED frame
    /\ UNCHANGED <<cfg, dev, flaky, ticks, running, pygameUp, pend, chk,
                   keyVars, padVars, lfoVars, last_steering_value, edgeVars, guiVars>>

\* self.running = True (line 702)
SetRunning ==
    /\ pc = "setrun"
    /\ running' = TRUE
    /\ pc' = "loop"
    /\ events' = <<>>
    /\ EngineStep
    /\ UNCHANGED <<steer_mode, calc>>
    /\ UNCHANGED frame
    /\ UNCHANGED <<cfg, ticks, deviceVars, pend, chk,
                   keyVars, padVars, lfoVars, last_steering_value, edgeVars, guiVars>>

\* while self.running (line 713) is false: start() returns
Exit ==
    /\ pc = "loop"
    /\ ~running
    /\ pc' = "exited"
    /\ events' = <<>>
    /\ EngineStep
    /\ UNCHANGED <<steer_mode, calc>>
    /\ UNCHANGED frame
    /\ UNCHANGED <<cfg, ticks, running, deviceVars, pend, chk,
                   keyVars, padVars, lfoVars, last_steering_value, edgeVars, guiVars>>

\* while self.running holds: update() begins; pygame.event.pump() and
\* wheel.get_numaxes() raise once stop() has quit pygame and the joystick,
\* and such an iteration, which leaves nothing behind, is not counted
Pump ==
    /\ pc = "loop"
    /\ running
    /\ IF pygameUp /\ wheelOpen
       THEN /\ ticks < (IF flaky THEN MaxTicks ELSE MaxQuietTicks)
            /\ ticks' = ticks + 1
            /\ pc' = "steer"
       ELSE /\ ticks' = ticks
            /\ pc' = "errsleep"
    /\ events' = <<>>
    /\ EngineStep
    /\ UNCHANGED <<steer_mode, calc>>
    /\ UNCHANGED frame
    /\ UNCHANGED <<cfg, running, deviceVars, pend, chk,
                   keyVars, padVars, lfoVars, last_steering_value, edgeVars, guiVars>>

\* wheel.get_axis(0), which raises once stop() has quit the joystick, and
\* handle_steering: the focus check, the mode's handler and, in Keyboard
\* mode, the first of its key calls
Steer ==
    /\ pc = "steer"
    /\ IF dev.numaxes > 0 /\ ~wheelOpen
       THEN /\ pc' = "errsleep"
            /\ events' = <<>>
            /\ UNCHANGED <<chk, steer_mode, lfoVars, last_steering_value, padVars, keyVars, pend>>
       ELSE IF dev.numaxes > 0
       THEN \E steering \in SteerVals, foc \in BOOLEAN, fk \in FaultKeys :
              LET r == handle_steering(SteerState, cfg, foc, steering)
                  K == IF r.calls = <<>> THEN KeySink
                       ELSE DoCall(KeySink, Head(r.calls), fk)
              IN  /\ chk' = chk \cup {foc}
                  /\ steer_mode' = IF foc THEN cfg.control_mode ELSE NoMode
                  /\ lfo_state' = r.lfo_state
                  /\ lfo_age' = r.lfo_age
                  /\ last_steering_value' = r.last_steering_value
                  /\ SetPadSink(r.P)
                  /\ SetKeySink(K)
                  /\ events' = K.ev \o r.ev \o r.P.ev
                  /\ pend' = IF r.calls = <<>> THEN <<>> ELSE Tail(r.calls)
                  /\ pc' = IF r.calls = <<>> \/ Tail(r.calls) = <<>>
                           THEN "pedals" ELSE "steer2"
       ELSE /\ pc' = "pedals"
            /\ events' = <<>>
            /\ UNCHANGED <<chk, steer_mode, lfoVars, last_steering_value, padVars, keyVars, pend>>
    /\ EngineStep
    /\ UNCHANGED calc
    /\ UNCHANGED frame
    /\ UNCHANGED <<cfg, ticks, running, deviceVars, edgeVars, guiVars>>

\* the second key call of handle_steering_keyboard
Steer2 ==
    /\ pc = "steer2"
    /\ \E fk \in FaultKeys :
         LET K == RunCalls(KeySink, pend, fk)
         IN  SetKeySink(K) /\ events' = K.ev
    /\ pend' = <<>>
    /\ pc' = "pedals"
    /\ EngineStep
    /\ UNCHANGED <<steer_mode, calc>>
    /\ UNCHANGED frame
    /\ UNCHANGED <<cfg, ticks, running, deviceVars, chk, padVars,
                   lfoVars, last_steering_value, edgeVars, guiVars>>

\* update() from the pedal reads to the end of handle_pedals; a read of the
\* joystick raises once stop() has quit it, and start() catches that
Pedals ==
    /\ pc = "pedals"
    /\ IF ~wheelOpen
       THEN /\ pc' = "errsleep"
            /\ events' = <<>>
            /\ UNCHANGED <<chk, keyVars, padVars>>
       ELSE \E ax \in [1..3 -> PedalVals], foc \in BOOLEAN, fk \in FaultKeys :
              LET in == pedal_axes(dev.numaxes, ax, cfg.swap_brake_clutch)
                  S == handle_pedals([K |-> KeySink, P |-> PadSink], cfg, foc,
                                     in.throttle, in.brake, fk)
              IN  /\ \A i \in 1..3 : i >= dev.numaxes => ax[i] = 1000
                  /\ chk' = chk \cup {foc}
                  /\ SetKeySink(S.K) /\ SetPadSink(S.P)
                  /\ events' = S.K.ev \o S.P.ev
                  /\ pc' = "buttons"
    /\ EngineStep
    /\ steer_mode' = NoMode
    /\ UNCHANGED calc
    /\ UNCHANGED frame
    /\ UNCHANGED <<cfg, ticks, running, deviceVars, pend,
                   lfoVars, last_steering_value, edgeVars, guiVars>>

\* handle_buttons: unfocused it returns before it reads the joystick
ButtonsStep ==
    /\ pc = "buttons"
    /\ \E foc \in BOOLEAN, buttons \in [0..(dev.numbuttons - 1) -> BOOLEAN],
          fk \in FaultKeys :
         /\ chk' = chk \cup {foc}
         /\ IF foc /\ ~wheelOpen
            THEN /\ pc' = "errsleep"
                 /\ events' = <<>>
                 /\ UNCHANGED <<keyVars, padVars, button_states, frame>>
            ELSE LET S == handle_buttons([K |-> KeySink, P |-> PadSink,
                                          states |-> button_states],
                                         cfg, foc, buttons, fk)
                 IN  /\ SetKeySink(S.K) /\ SetPadSink(S.P)
                     /\ events' = S.K.ev \o S.P.ev
                     /\ button_states' = S.states
                     /\ frame' = [frame EXCEPT !.buttons = buttons]
                     /\ pc' = "dpad"
    /\ EngineStep
    /\ UNCHANGED <<steer_mode, calc>>
    /\ UNCHANGED <<cfg, ticks, running, deviceVars, pend,
                   lfoVars, last_steering_value, dpad_states, guiVars>>

\* handle_dpad, the last handler of update()
Dpad ==
    /\ pc = "dpad"
    /\ \E foc \in BOOLEAN, hats \in [1..dev.numhats -> HatVals], fk \in FaultKeys :
         /\ chk' = chk \cup {foc}
         /\ IF foc /\ ~wheelOpen
            THEN /\ pc' = "errsleep"
                 /\ events' = <<>>
                 /\ UNCHANGED <<keyVars, dpad_states, frame>>
            ELSE LET S == handle_dpad([K |-> KeySink, states |-> dpad_states],
                                      foc, hats, fk)
                 IN  /\ SetKeySink(S.K)
                     /\ events' = S.K.ev
                     /\ dpad_states' = S.states
                     /\ frame' = [frame EXCEPT !.hats = hats]
                     /\ pc' = "sleep"
    /\ EngineStep
    /\ UNCHANGED <<steer_mode, calc>>
    /\ UNCHANGED <<cfg, ticks, running, deviceVars, pend, padVars,
                   lfoVars, last_steering_value, button_states, guiVars>>

\* the loop with its try around the while: an exception ends start()
Sleep_outside_loop ==
    /\ pc \in {"sleep", "errsleep"}
    /\ \E dt \in (IF pc = "sleep" THEN TickDeltas ELSE {ErrSleepMs}) :
         lfo_age' = Min(lfo_age + dt, AgeCap)
    /\ pend' = <<>>
    /\ chk' = {}
    /\ frame' = NoFrame
    /\ pc' = IF pc = "errsleep" THEN "exited" ELSE "loop"
    /\ events' = <<>>
    /\ EngineStep
    /\ UNCHANGED <<steer_mode, calc>>
    /\ UNCHANGED <<cfg, ticks, running, deviceVars,
                   keyVars, padVars, lfo_state, last_steering_value, edgeVars, guiVars>>

\* time.sleep(0.016) (line 716), or time.sleep(0.1) after an exception
Sleep ==
    /\ pc \in {"sleep", "errsleep"}
    /\ \E dt \in (IF pc = "sleep" THEN TickDeltas ELSE {ErrSleepMs}) :
         lfo_age' = Min(lfo_age + dt, AgeCap)
    /\ pend' = <<>>
    /\ chk' = {}
    /\ frame' = NoFrame
    /\ pc' = "loop"
    /\ events' = <<>>
    /\ EngineStep
    /\ UNCHANGED <<steer_mode, calc>>
    /\ UNCHANGED <<cfg, ticks, running, deviceVars,
                   keyVars, padVars, lfo_state, last_steering_value, edgeVars, guiVars>>

(***************************************************************************)
(* The presentation thread: EnhancedG29Controller.stop, step by step, and  *)
(* EnhancedG29GUI.update_config_from_gui.                                  *)
(***************************************************************************)
\* the release loop of stop() ending after its first key
release_all_first(K, ks, fk) ==
    IF ks = {} THEN K
    ELSE release_key(K, CHOOSE x \in ks : TRUE, fk)

RECURSIVE release_all(_, _, _)
release_all(K, ks, fk) ==
    IF ks = {} THEN K
    ELSE LET k == CHOOSE x \in ks : TRUE
         IN  release_all(release_key(K, k, fk), ks \ {k}, fk)

\* self.running = False and the list(self.current_keys_pressed) of the loop
StopBegin ==
    /\ gpc = "idle"
    /\ running' = FALSE
    /\ stopList' = keys
    /\ stopInTick' = (pc \in TickPcs)
    /\ gpc' = "release"
    /\ clean' = TRUE
    /\ events' = <<>>
    /\ UNCHANGED <<frame, steer_mode, calc, status>>
    /\ UNCHANGED <<cfg, ticks, pc, deviceVars, pend, chk, keyVars,
                   padVars, lfoVars, last_steering_value, edgeVars, cleanStops>>

\* for key in list(...): self.release_key(key)
StopRelease ==
    /\ gpc = "release"
    /\ \E fk \in FaultKeys :
         LET K == release_all(KeySink, stopList, fk)
         IN  /\ SetKeySink(K) /\ events' = K.ev
             /\ clean' = (clean /\ \A i \in 1..Len(K.ev) : K.ev[i].ok)
    /\ stopList' = {}
    /\ gpc' = "disconnect"
    /\ UNCHANGED stopInTick
    /\ UNCHANGED <<frame, steer_mode, calc, status>>
    /\ UNCHANGED <<cfg, ticks, pc, running, deviceVars, pend, chk,
                   padVars, lfoVars, last_steering_value, edgeVars, cleanStops>>

\* self.virtual_controller.disconnect()
StopDisconnect ==
    /\ gpc = "disconnect"
    /\ LET P == disconnect(PadSink)
       IN  SetPadSink(P) /\ events' = P.ev
    /\ gpc' = "quit"
    /\ UNCHANGED <<frame, steer_mode, calc, status>>
    /\ UNCHANGED <<cfg, ticks, pc, running, deviceVars, pend, chk,
                   keyVars, lfoVars, last_steering_value, edgeVars, stopList,
                   stopInTick, clean, cleanStops>>

\* self.wheel.quit(), pygame.quit(), and stop() returns
StopQuit ==
    /\ gpc = "quit"
    /\ wheelOpen' = (IF wheel THEN FALSE ELSE wheelOpen)
    /\ pygameUp' = FALSE
    /\ gpc' = "idle"
    /\ cleanStops' = IF ~clean THEN 0 ELSE IF cleanStops = 0 THEN 1 ELSE 2
    /\ events' = <<>>
    /\ UNCHANGED <<frame, steer_mode, calc, status>>
    /\ UNCHANGED <<cfg, lfo_age, ticks, pc, running, wheel, dev, flaky, pend, chk,
                   keyVars, padVars, lfoVars, last_steering_value, edgeVars, stopList,
                   stopInTick, clean>>

\* update_config_from_gui (save_config while the engine runs) writes the
\* widgets' values into the shared WheelConfig
UpdateConfig ==
    /\ gpc = "idle"
    /\ \E c \in Configs \ {cfg} : cfg' = c
    /\ UNCHANGED <<frame, steer_mode, calc, status>>
    /\ UNCHANGED <<events, ticks, pc, running, deviceVars, pend, chk,
                   keyVars, padVars, lfoVars, last_steering_value, edgeVars, gpc,
                   stopList, stopInTick, clean, cleanStops>>

\* The engine thread while self.running holds.
Engine ==
    \/ Start
    \/ SetRunning
    \/ Pump
    \/ Steer
    \/ Steer2
    \/ Pedals
    \/ ButtonsStep
    \/ Dpad
    \/ Sleep

\* The engine while the presentation thread rewrites the configuration;
\* injector calls may raise.
Next ==
    \/ Engine
    \/ UpdateConfig

Spec == Init /\ [][Next]_vars

\* The engine while the presentation thread calls stop(), any number of
\* times; no injector call raises.  Only stop() clears self.running, so
\* only here can the loop of start() end.
InitStop ==
    /\ InitState
    /\ flaky = FALSE

NextStop ==
    \/ Engine
    \/ Exit
    \/ StopBegin
    \/ StopRelease
    \/ StopDisconnect
    \/ StopQuit

SpecStop == InitStop /\ [][NextStop]_vars

\* The same with the engine thread scheduled fairly: a step of the thread
\* that stays possible is taken.  Nothing obliges the presentation thread
\* to call stop().
SpecStopFair == SpecStop /\ WF_vars(Engine \/ Exit)

\* The engine thread alone: no call of the presentation thread, no injector
\* call raises.
SpecEngine == InitStop /\ [][Engine]_vars

\* The engine thread alone, with an injector whose calls can raise.
SpecFlaky == Init /\ [][Engine]_vars

\* start_interface after controller_thread.start(): the status label shows
\* Running, Start is disabled and Stop enabled (lines 1455-1457)
ShowRunning ==
    /\ gpc = "idle"
    /\ status = "Stopped"
    /\ status' = "Running"
    /\ UNCHANGED <<frame, steer_mode, calc>>
    /\ UNCHANGED <<cfg, events, ticks, pc, running, deviceVars, pend, chk,
                   keyVars, padVars, lfoVars, last_steering_value, edgeVars, gpc,
                   stopList, stopInTick, clean, cleanStops>>

NextLaunch ==
    \/ Engine
    \/ ShowRunning

\* The engine thread while start_interface, which launched it, runs to its
\* end.
SpecLaunch == InitStop /\ [][NextLaunch]_vars

(***************************************************************************)
(* The conditioning functions called on their own, on arguments drawn     *)
(* from the ranges the configuration sliders and the joystick allow.      *)
(***************************************************************************)
\* raw axis values, the two ends and the deadzone boundaries among them
CalcValues == {-1000, -500, -50, -49, 0, 49, 50, 500, 900, 1000}
\* steering_deadzone
Deadzones == {0, 50, 900}
\* steering_sensitivity: the slider runs from 0.1 to 3.0
Sensitivities == {100, 1000, 3000}
\* keyboard_steering_frequency: the slider runs from 5 to 30 Hz
BaseFrequencies == {5, 10, 30}

otherVars == <<cfg, dev, lfo_age, ticks, flaky, faults, pc, running, wheel, wheelOpen,
               pygameUp, pend, chk, keys, down, alternates, events,
               lfo_state, last_steering_value, button_states,
               dpad_states, frame, steer_mode, vc, gp, gpc, stopList, stopInTick,
               status, clean, cleanStops>>

\* apply_deadzone(value, deadzone), and on a second value
CalcDeadzone ==
    /\ \E v \in CalcValues, w \in CalcValues, dz \in Deadzones :
         calc' = [op |-> "apply_deadzone", value |-> v, value2 |-> w, deadzone |-> dz,
                  out |-> apply_deadzone(v, dz), out2 |-> apply_deadzone(w, dz)]
    /\ UNCHANGED otherVars

\* the tap frequency handle_steering_keyboard computes in LFO mode
CalcFrequency ==
    /\ \E v \in CalcValues, dz \in Deadzones, sens \in Sensitivities,
          base \in BaseFrequencies :
         LET c == [cfg EXCEPT !.steering_deadzone = dz,
                              !.steering_sensitivity = sens,
                              !.keyboard_steering_frequency = base]
             s == conditioned_steering(c, v)
         IN  /\ Abs(s) >= InnerThreshold
             /\ calc' = [op |-> "lfo_frequency", value |-> v, deadzone |-> dz,
                         sensitivity |-> sens, base |-> base, s |-> s,
                         out |-> lfo_frequency(c, s)]
    /\ UNCHANGED otherVars

\* raw throttle values: the two ends and the two values around the
\* threshold of handle_pedals_keyboard (normalized 0.1 and 0.101)
ThrottleVals == PedalVals \cup {-800, -798}

\* handle_pedals in a focused tick, not in VirtualGamepad mode, on a key sink
\* that holds the pedal keys in held and the steering keys in steer
CalcPedals ==
    /\ \E throttle \in ThrottleVals, brake \in PedalVals,
          mode \in ControlMode \ {VIRTUAL_XBOX},
          held \in SUBSET {cfg.throttle_key, cfg.brake_key},
          steer \in {{}, {"a"}} :
         LET c == [cfg EXCEPT !.control_mode = mode]
             K == [KeySink EXCEPT !.keys = held \cup steer, !.down = held \cup steer]
             S == handle_pedals([K |-> K, P |-> PadSink], c, TRUE, throttle, brake, NoKey)
         IN  calc' = [op |-> "handle_pedals", throttle |-> throttle, brake |-> brake,
                      mode |-> mode, held |-> held \cup steer,
                      normalized |-> [throttle |-> normalize_pedal(throttle),
                                      brake |-> normalize_pedal(brake)],
                      keys |-> S.K.keys, ev |-> S.K.ev]
    /\ UNCHANGED otherVars

\* normalized pedal values handle_pedals can pass on
NormalizedVals == {0, 500, 1000}

\* update_throttle_brake with controller_throttle_axis = 'triggers' on a
\* connected virtual pad
CalcTriggers ==
    /\ \E throttle \in NormalizedVals, brake \in NormalizedVals :
         LET c == [cfg EXCEPT !.controller_throttle_axis = "triggers"]
             P == update_throttle_brake([PadSink EXCEPT !.vc.connected = TRUE],
                                        c, throttle, brake)
         IN  calc' = [op |-> "update_throttle_brake", throttle |-> throttle,
                      brake |-> brake, right_trigger |-> P.gp.rt,
                      left_trigger |-> P.gp.lt]
    /\ UNCHANGED otherVars

\* raw steering values of the VirtualGamepad tick
PadValues == {-1000, 800}
\* controller_steering_range: the default and a factor above 1
SteeringRanges == {1000, 2000}
StickModes == {"left", "right"}
ThrottleAxes == {"left_x", "left_y", "right_x", "right_y", "triggers"}
\* the X value the pad g holds for the stick selected by stick
SteeringX(g, stick) == IF stick = "left" THEN g.lx ELSE g.rx

\* the stick calls of a focused tick in VirtualGamepad mode on a connected
\* pad: handle_steering, then handle_pedals
CalcPad ==
    /\ \E v \in PadValues, dz \in Deadzones, range \in SteeringRanges,
          stick \in StickModes, axis \in ThrottleAxes,
          throttle \in PedalVals, brake \in PedalVals :
         LET c == [cfg EXCEPT !.control_mode = VIRTUAL_XBOX,
                              !.steering_deadzone = dz,
                              !.controller_steering_range = range,
                              !.controller_stick_mode = stick,
                              !.controller_throttle_axis = axis]
             P0 == [PadSink EXCEPT !.vc.connected = TRUE]
             S0 == [SteerState EXCEPT !.P = P0]
             S1 == handle_steering(S0, c, TRUE, v)
             S2 == handle_pedals([K |-> KeySink, P |-> S1.P], c, TRUE, throttle, brake, NoKey)
         IN  calc' = [op |-> "virtual_xbox_tick", value |-> v, deadzone |-> dz,
                      range |-> range, stick |-> stick, axis |-> axis,
                      throttle |-> throttle, brake |-> brake,
                      steered |-> S1.P.gp, sent |-> S2.P.gp]
    /\ UNCHANGED otherVars

NextCalc ==
    \/ CalcDeadzone
    \/ CalcFrequency
    \/ CalcPedals
    \/ CalcTriggers

\* The calls take all their arguments from the sets above and nothing from
\* the controller, so one wheel and one configuration do for the state they
\* are made in.
InitCalc ==
    /\ InitStop
    /\ dev = Device(1, 0, 0)
    /\ cfg = WheelConfig(KEYBOARD, TRUE)

SpecCalc == InitCalc /\ [][NextCalc]_vars

\* the default mappings of buttons 0 and 1
SharedMappings == (0 :> "space") @@ (1 :> "space")

\* handle_buttons in two focused ticks running, not in VirtualGamepad mode,
\* with two buttons mapped to one key, from the state after construction
CalcButtons ==
    /\ \E first \in [DOMAIN SharedMappings -> BOOLEAN],
          second \in [DOMAIN SharedMappings -> BOOLEAN],
          mode \in ControlMode \ {VIRTUAL_XBOX} :
         LET c == [cfg EXCEPT !.control_mode = mode, !.button_mappings = SharedMappings]
             S0 == [K |-> KeySink, P |-> PadSink, states |-> EmptyDict]
             S1 == handle_buttons(S0, c, TRUE, first, NoKey)
             S2 == handle_buttons([S1 EXCEPT !.K.ev = <<>>], c, TRUE, second, NoKey)
         IN  calc' = [op |-> "handle_buttons", mode |-> mode,
                      first |-> first, second |-> second,
                      keys1 |-> S1.K.keys, keys |-> S2.K.keys, ev |-> S2.K.ev]
    /\ UNCHANGED otherVars

\* the key fields of the Key Mappings frame that handle_pedals reads
PedalKeyFields == {"throttle_key", "brake_key"}
\* keys typed into a key field
NewKeys == {"x", "1"}

\* handle_pedals in two focused ticks running, not in VirtualGamepad mode,
\* with update_config_from_gui writing a new key into one pedal key field
\* between them, from the state after construction
CalcRebind ==
    /\ \E field \in PedalKeyFields, new \in NewKeys,
          first \in [PedalKeyFields -> PedalVals],
          second \in [PedalKeyFields -> PedalVals],
          mode \in ControlMode \ {VIRTUAL_XBOX} :
         LET c1 == [cfg EXCEPT !.control_mode = mode]
             c2 == [c1 EXCEPT ![field] = new]
             S0 == [K |-> KeySink, P |-> PadSink]
             S1 == handle_pedals(S0, c1, TRUE, first.throttle_key, first.brake_key, NoKey)
             S2 == handle_pedals([S1 EXCEPT !.K.ev = <<>>], c2, TRUE,
                                 second.throttle_key, second.brake_key, NoKey)
         IN  calc' = [op |-> "rebind", mode |-> mode, field |-> field,
                      old |-> c1[field], new |-> new,
                      first |-> first, second |-> second,
                      keys1 |-> S1.K.keys, keys |-> S2.K.keys, ev |-> S2.K.ev]
    /\ UNCHANGED otherVars

\* the calls of whole handlers on states and configurations drawn from sets
NextTick ==
    \/ CalcPad
    \/ CalcButtons
    \/ CalcRebind

SpecTick == InitCalc /\ [][NextTick]_vars

(***************************************************************************)
(* Properties.                                                             *)
(***************************************************************************)
SteeringKeys == {"a", "d"}

\* C1: the pressed-key set never holds both 'a' and 'd', the state between
\* the press_key and the release_key of one tick included (no injector
\* call having raised).
C1_NeverBothDirections == ~faults => ~(SteeringKeys \subseteq keys)

\* C2: once a stop() that was called while the engine thread was inside a
\* tick has returned, no key is in the pressed set.
C2_NoKeySurvivesStop == (gpc = "idle" /\ ~pygameUp /\ stopInTick) => keys = {}

\* C3: with the engine thread quiescent and no injection fault, stop()
\* leaves current_keys_pressed empty, and a further stop() right after it
\* makes no sink call and changes no engine state.
C3_StopIdempotent ==
    /\ []((gpc = "idle" /\ cleanStops >= 1) => keys = {})
    /\ [][(cleanStops >= 1 /\ gpc' # gpc)
            => (events' = <<>> /\ UNCHANGED <<running, keys, down, alternates, faults,
                                               vc, gp, wheel, wheelOpen, pygameUp,
                                               lfo_state, lfo_age, last_steering_value,
                                               button_states, dpad_states, pc>>)]_vars

\* two stop() calls in a row have returned, the first after the oscillator
\* had pressed a steering key
C3_Witness == gpc = "idle" /\ cleanStops = 2 /\ lfo_state /\ keys = {}

\* C4: after stop() has returned in VirtualGamepad mode (engine quiescent),
\* no virtual-pad button is pressed on the driver and sticks and triggers
\* are at 0.
C4_StopNeutralisesPad ==
    (gpc = "idle" /\ cleanStops >= 1 /\ cfg.control_mode = VIRTUAL_XBOX)
        => (gp.buttons = {} /\ gp.lx = 0 /\ gp.ly = 0 /\ gp.rx = 0 /\ gp.ry = 0
            /\ gp.lt = 0 /\ gp.rt = 0)

\* C5: once the mode is no longer Keyboard, a focused handle_steering leaves
\* no steering key of the previous mode in the pressed set (no injector
\* call having raised).
C5_ModeSwitchReleasesKeys ==
    [][(pc = "steer" /\ pc' = "pedals" /\ chk' = {TRUE} /\ ~faults'
         /\ cfg.control_mode # KEYBOARD)
        => keys' \cap SteeringKeys = {}]_vars

\* C6: in Keyboard mode, once handle_buttons has seen button 0 released, the
\* virtual-pad button it is bound to is not pressed on the driver.
C6_PadButtonReleasedAfterSwitch ==
    (cfg.control_mode = KEYBOARD /\ 0 \in DOMAIN button_states /\ ~button_states[0])
        => cfg.button_mappings[0] \notin gp.buttons

\* C7: press_key of a key in the pressed set, and release_key of a key not
\* in it, make no injector call and leave the sink as it is.
C7_PressReleaseIdempotent ==
    \A k \in AllKeys, fk \in AllKeys \cup {NoKey} :
        /\ k \in keys => press_key(KeySink, k, fk) = KeySink
        /\ k \notin keys => release_key(KeySink, k, fk) = KeySink

\* handle_steering_keyboard has called press_key('d') with 'd' pressed, and
\* no injector call was made
C7_Witness ==
    /\ pc = "steer2" /\ pend = <<Call("release", "a")>>
    /\ events = <<>> /\ "d" \in keys /\ ~faults

\* C8: the successful injector events of every key alternate press,
\* release, press, ..., starting with a press.
C8_EventsAlternate == alternates /\ down = keys

\* a key was pressed in an earlier tick and has just been released
C8_Witness ==
    \E i \in 1..Len(events) : events[i].op = "release" /\ events[i].ok /\ ticks = MaxTicks

\* C9: the focus checks of one tick all give the same answer, so the tick
\* applies all of its outputs or none.
C9_OneFocusAnswerPerTick == chk \in {{}, {TRUE}, {FALSE}}

\* C10: while every focus check of the tick has returned false, a handler
\* makes no sink call and leaves the pressed set, the oscillator and both
\* sinks as they are.
C10_UnfocusedTickChangesNothing ==
    [][(pc \in {"loop", "steer", "pedals", "buttons", "dpad"} /\ pc' # pc
         /\ chk' \subseteq {FALSE})
        => (events' = <<>>
            /\ UNCHANGED <<keys, down, lfo_state, lfo_age, last_steering_value, vc, gp>>)]_vars

\* a tick has run unfocused from its first handler to its last while keys
\* pressed earlier stay pressed
C10_Witness == pc = "sleep" /\ chk = {FALSE} /\ keys # {} /\ ticks = MaxTicks

\* the edge tables hold the value the joystick holds in this tick for every
\* button and every (hat, direction) pair
EdgeTableCurrent ==
    /\ \A b \in DOMAIN frame.buttons :
         b \in DOMAIN button_states /\ button_states[b] = frame.buttons[b]
    /\ \A i \in DOMAIN frame.hats, k \in DOMAIN Directions :
         /\ <<i - 1, Directions[k]>> \in DOMAIN dpad_states
         /\ dpad_states[<<i - 1, Directions[k]>>]
              = current_dpad(frame.hats[i])[Directions[k]]

\* C11: at the end of a tick in which every focus check returned false, the
\* edge tables equal the raw button and hat values of that tick.
C11_EdgeTableFollowsFrame == (pc = "sleep" /\ chk = {FALSE}) => EdgeTableCurrent

\* number of sink calls in evs with one of the operations ops on key
Count(evs, ops, key) ==
    Cardinality({i \in 1..Len(evs) : evs[i].op \in ops /\ evs[i].key = key})

Edge(was, now) == IF now /\ ~was THEN 1 ELSE 0

FirstSeenHeld(b) ==
    b \notin DOMAIN button_states /\ b \in DOMAIN button_states' /\ button_states'[b]

FirstSeenHeldHat(h, d) ==
    /\ <<h, d>> \notin DOMAIN dpad_states
    /\ <<h, d>> \in DOMAIN dpad_states' /\ dpad_states'[<<h, d>>]

\* C13 as stated: a button or hat direction held the first time it is
\* observed gets no press of its mapped key.
C13_FirstHeldPressDropped ==
    [][/\ \A b \in 0..(dev.numbuttons - 1) :
            FirstSeenHeld(b) =>
                Count(events', {"press", "pad_press"}, cfg.button_mappings[b]) = 0
       /\ \A h \in 0..(dev.numhats - 1), k \in DOMAIN Directions :
            FirstSeenHeldHat(h, Directions[k]) =>
                Count(events', {"press"}, dpad_mappings[Directions[k]]) = 0]_vars

\* C13, amended: a button or hat direction held the first time it is
\* observed is taken as released -> pressed (an unknown input defaults to
\* released), so its mapped key or pad button gets one press and is then
\* held by the sink (no injector error).
C13_FirstHeldPressFires ==
    [][/\ \A b \in 0..(dev.numbuttons - 1) :
            FirstSeenHeld(b) =>
                LET key == cfg.button_mappings[b]
                IN  /\ Count(events', {"press", "pad_press"}, key) = 1
                    /\ key \in keys' \cup gp'.buttons
       /\ \A h \in 0..(dev.numhats - 1), k \in DOMAIN Directions :
            FirstSeenHeldHat(h, Directions[k]) =>
                LET key == dpad_mappings[Directions[k]]
                IN  /\ Count(events', {"press"}, key) = 1
                    /\ key \in keys']_vars

\* the first handle_buttons of the run has found button 0 held and pressed
\* its key or pad button
C13_Witness ==
    /\ pc = "dpad" /\ ticks = 1 /\ 0 \in DOMAIN button_states /\ button_states[0]
    /\ Count(events, {"press", "pad_press"}, cfg.button_mappings[0]) = 1

\* C14: a keyboard-steering tick whose conditioned steering magnitude is
\* below the inner threshold leaves the oscillator phase low.
C14_DeadzoneResetsPhase ==
    (pc = "steer" /\ cfg.control_mode = KEYBOARD) =>
        \A v \in SteerVals :
            Abs(conditioned_steering(cfg, v)) < InnerThreshold =>
                ~handle_steering_keyboard(cfg, v, lfo_state, lfo_age).lfo_state

\* C15: the tap frequency is base * (0.5 + 1.5 * |s|) and lies between 0.5
\* and 2 times the base frequency (frequencies in mHz); s = 0.9 and base 10
\* give 18.5 Hz.
C15_FrequencyWithinBand ==
    calc.op = "lfo_frequency" =>
        /\ calc.out = (calc.base * (1000 + 3 * Abs(calc.s))) \div 2
        /\ 500 * calc.base <= calc.out /\ calc.out <= 2000 * calc.base
        /\ (calc.s = 900 /\ calc.base = 10) => calc.out = 18500

\* C16: raw -1.0 is normalized to 1.0 and the pedal key is pressed; raw
\* +1.0 is normalized to 0 and the key is released.
C16_PressedPedalPressesKey ==
    calc.op = "handle_pedals" =>
        /\ calc.throttle = -1000 =>
              (calc.normalized.throttle = 1000 /\ cfg.throttle_key \in calc.keys)
        /\ calc.throttle = 1000 =>
              (calc.normalized.throttle = 0 /\ cfg.throttle_key \notin calc.keys)

\* C17 as stated: apply_deadzone returns 0 if and only if |value| < deadzone.
C17_ZeroIffInsideDeadzone ==
    calc.op = "apply_deadzone" => (calc.out = 0 <=> Abs(calc.value) < calc.deadzone)

\* C17, amended: apply_deadzone returns 0 if and only if |value| <= deadzone
\* (at |value| = deadzone the rescaled value is 0).
C17_ZeroIffNotBeyondDeadzone ==
    calc.op = "apply_deadzone" => (calc.out = 0 <=> Abs(calc.value) <= calc.deadzone)

\* apply_deadzone was called on the boundary value = deadzone > 0
C17_Witness ==
    calc.op = "apply_deadzone" /\ calc.value = calc.deadzone /\ calc.deadzone > 0
    /\ calc.out = 0

\* C18: for |value| >= deadzone the result is
\* (value - sign(value) * deadzone) / (1 - deadzone); it has the sign of the
\* input, is non-decreasing in the input magnitude, stays within [-1, 1]
\* and is +1 / -1 at value = +1 / -1; 0.5 with deadzone 0.05 gives 0.473.
C18_RescaledBeyondDeadzone ==
    (calc.op = "apply_deadzone" /\ Abs(calc.value) >= calc.deadzone) =>
        /\ calc.out = TruncDiv((calc.value - Sign(calc.value) * calc.deadzone) * 1000,
                               1000 - calc.deadzone)
        /\ calc.out * calc.value >= 0
        /\ Abs(calc.out) <= 1000
        /\ (Abs(calc.value2) >= calc.deadzone /\ Abs(calc.value) <= Abs(calc.value2))
              => Abs(calc.out) <= Abs(calc.out2)
        /\ calc.value = 1000 => calc.out = 1000
        /\ calc.value = -1000 => calc.out = -1000
        /\ (calc.value = 500 /\ calc.deadzone = 50) => calc.out = 473

\* apply_deadzone(0.5, 0.05) and apply_deadzone(1.0, 0.05) were computed
C18_Witness ==
    /\ calc.op = "apply_deadzone" /\ calc.deadzone = 50
    /\ calc.value = 500 /\ calc.out = 473
    /\ calc.value2 = 1000 /\ calc.out2 = 1000

\* C19: when handle_steering and handle_pedals of one tick both read the
\* configuration, they read the same control_mode.
C19_OneConfigPerTick ==
    [][(pc = "pedals" /\ pc' = "buttons" /\ chk' = {TRUE} /\ steer_mode # NoMode)
        => steer_mode = cfg.control_mode]_vars

\* C20: an exception raised inside update() is caught by the loop of
\* start(): catching it leaves running as it was, start() does not return
\* from the handler, and after the 0.1 s sleep the thread is back at the
\* while test, which alone decides whether update() is called again.
C20_ExceptionKeepsLoop ==
    [][/\ (pc # "errsleep" /\ pc' = "errsleep") => (pc \in TickPcs \cup {"loop"} /\ running' = running)
       /\ (pc = "errsleep" /\ pc' # pc) => (pc' = "loop" /\ running' = running)]_vars

\* a handler of update() raised after an earlier handler of the tick had run,
\* and the loop is in its except clause
C20_Witness == pc = "errsleep" /\ ticks > 0 /\ chk # {}

\* C21: when find_g29 finds no wheel, start() raises before the loop:
\* running is never set, update() is never called and no sink call is made.
C21_NoDeviceNoLoop ==
    (pc # "start" /\ ~wheel) =>
        /\ pc = "failed"
        /\ ~running /\ ticks = 0
        /\ events = <<>> /\ keys = {} /\ down = {}
        /\ gp.buttons = {} /\ gp.lx = 0 /\ gp.ly = 0 /\ gp.rx = 0 /\ gp.ry = 0
        /\ gp.lt = 0 /\ gp.rt = 0

\* start() has raised because no wheel was found
C21_Witness == pc = "failed" /\ ~wheel /\ pygameUp

\* C22: the presentation layer never shows Running when start() has failed
\* for want of a device.
C22_FailureReachesGui == pc = "failed" => status # "Running"

\* C23: in a focused handle_buttons outside VirtualGamepad mode, a mapped key
\* that is not in the pressed set while its button is held gets a press
\* attempt, and one that is in the pressed set while its button is released
\* gets a release attempt: an injection that failed is tried again.
C23_FailedInjectionRetried ==
    [][(pc = "buttons" /\ pc' = "dpad" /\ chk' = {TRUE}
         /\ cfg.control_mode # VIRTUAL_XBOX)
        => \A b \in DOMAIN frame'.buttons :
             LET key == cfg.button_mappings[b]
             IN  /\ (frame'.buttons[b] /\ key \notin keys)
                       => Count(events', {"press"}, key) = 1
                 /\ (~frame'.buttons[b] /\ key \in keys)
                       => Count(events', {"release"}, key) = 1]_vars

\* C24: a focused VirtualGamepad tick flushes the steering value and the
\* pedal values to the driver in one update() call: handle_steering and
\* handle_pedals of the tick make one such call between them.
C24_OneDriverUpdatePerTick ==
    [][(pc = "pedals" /\ pc' = "buttons" /\ chk' = {TRUE}
         /\ cfg.control_mode = VIRTUAL_XBOX)
        => Count(events, {"pad_update"}, NoKey)
             + Count(events', {"pad_update"}, NoKey) = 1]_vars

\* C25: with the triggers as pedal axes, a normalized pedal value of 0 is
\* sent as trigger value 0 and a value of 1 as 255, and the trigger value
\* does not decrease when the normalized value grows.
C25_TriggerFollowsPedal ==
    calc.op = "update_throttle_brake" =>
        /\ calc.throttle = 0 => calc.right_trigger = 0
        /\ calc.throttle = 1000 => calc.right_trigger = TriggerMax
        /\ calc.throttle <= calc.brake => calc.right_trigger <= calc.left_trigger

\* C26: once stop() has been called, start() eventually returns: the loop
\* exits, or start() had failed before it.
C26_StopEndsLoop == (gpc = "release") ~> (pc \in {"exited", "failed"})

\* handle_steering_keyboard on the raw value v in the current state: the
\* conditioned value, the oscillator it leaves and the key sink after its
\* key calls (no injector call raising)
SteeringOutcome(v) ==
    LET r == handle_steering_keyboard(cfg, v, lfo_state, lfo_age)
    IN  [s |-> conditioned_steering(cfg, v),
         lfo_state |-> r.lfo_state, lfo_age |-> r.lfo_age,
         K |-> RunCalls(KeySink, r.calls, NoKey)]

\* the direction key of a conditioned steering value
DirectionKey(s) == IF s > 0 THEN "d" ELSE "a"

\* C27: in LFO mode with |s| >= 0.02 the phase flips exactly when the time
\* since the last toggle is at least 1/f; a flip takes the current time as
\* the last toggle time, a flip to high leaves the key of sign(s) pressed
\* and the other released, a flip to low leaves both released; without a
\* flip the pressed set, the phase and the toggle time stay as they are and
\* no key call is made.
C27_PhaseFlipsOnPeriod ==
    (pc = "steer" /\ cfg.control_mode = KEYBOARD /\ cfg.keyboard_steering_lfo) =>
        \A v \in SteerVals :
            LET o == SteeringOutcome(v)
                flip == o.lfo_state # lfo_state
            IN  Abs(o.s) >= InnerThreshold =>
                  /\ flip <=> (lfo_age * cfg.keyboard_steering_frequency
                                  * (1000 + 3 * Abs(o.s)) >= 2000 * 1000)
                  /\ flip => o.lfo_age = 0
                  /\ (flip /\ o.lfo_state)
                        => o.K.keys \cap SteeringKeys = {DirectionKey(o.s)}
                  /\ (flip /\ ~o.lfo_state) => o.K.keys \cap SteeringKeys = {}
                  /\ ~flip => (o.K.keys = keys /\ o.lfo_age = lfo_age /\ o.K.ev = <<>>)

\* the oscillator has just flipped to low, releasing the key it had pressed
C27_Witness ==
    /\ pc = "pedals" /\ chk = {TRUE}
    /\ cfg.control_mode = KEYBOARD /\ cfg.keyboard_steering_lfo
    /\ ~lfo_state /\ lfo_age = 0 /\ keys \cap SteeringKeys = {}
    /\ Count(events, {"release"}, "a") + Count(events, {"release"}, "d") = 1

\* C28: in LFO mode, after a focused keyboard-steering tick a direction key
\* in the pressed set is the one of the sign of that tick's conditioned
\* steering value.
C28_DirectionChangeImmediate ==
    (pc = "steer" /\ cfg.control_mode = KEYBOARD /\ cfg.keyboard_steering_lfo) =>
        \A v \in SteerVals :
            LET o == SteeringOutcome(v)
            IN  /\ "d" \in o.K.keys => o.s > 0
                /\ "a" \in o.K.keys => o.s < 0

\* C29: with keyboard_steering_lfo off and |s| >= 0.02, a focused tick
\* leaves exactly the key of sign(s) pressed of the two direction keys, and
\* the phase and the toggle time as they were.
C29_SteadyKeyFollowsSign ==
    (pc = "steer" /\ cfg.control_mode = KEYBOARD /\ ~cfg.keyboard_steering_lfo) =>
        \A v \in SteerVals :
            LET o == SteeringOutcome(v)
            IN  Abs(o.s) >= InnerThreshold =>
                  /\ o.K.keys \cap SteeringKeys = {DirectionKey(o.s)}
                  /\ o.lfo_state = lfo_state /\ o.lfo_age = lfo_age

\* the steady mode has turned from 'a' to 'd': 'd' is pressed and 'a' has
\* just been released
C29_Witness ==
    /\ pc = "pedals" /\ chk = {TRUE}
    /\ cfg.control_mode = KEYBOARD /\ ~cfg.keyboard_steering_lfo
    /\ keys \cap SteeringKeys = {"d"}
    /\ Count(events, {"release"}, "a") = 1

\* C30: in Keyboard, MouseSteering and Hybrid modes a focused handle_pedals
\* (no injector error) leaves the throttle key pressed exactly if the
\* normalized throttle is > 0.1 and the brake key exactly if the normalized
\* brake is > 0.1, and it makes no call on 'a' or 'd' and leaves them as
\* they were.
C30_PedalKeysFollowThreshold ==
    calc.op = "handle_pedals" =>
        /\ cfg.throttle_key \in calc.keys <=> calc.normalized.throttle > PedalThreshold
        /\ cfg.brake_key \in calc.keys <=> calc.normalized.brake > PedalThreshold
        /\ calc.keys \cap SteeringKeys = calc.held \cap SteeringKeys
        /\ \A i \in 1..Len(calc.ev) : calc.ev[i].key \notin SteeringKeys

\* in Hybrid mode, with 'a' and the brake key held: the throttle at the
\* threshold leaves its key released, and the brake key is released
C30_Witness ==
    /\ calc.op = "handle_pedals" /\ calc.mode = HYBRID
    /\ calc.normalized.throttle = PedalThreshold /\ calc.normalized.brake = 0
    /\ calc.held = {cfg.brake_key, "a"} /\ calc.keys = {"a"}

\* the modes whose steering goes to the mouse
MouseModes == {MOUSE_STEERING, HYBRID}

\* C31: in MouseSteering and Hybrid modes the smoothed movement of a focused
\* tick is previous + (target - previous) * 0.3 with target = conditioned
\* steering * mouse_sensitivity (negated when inverted); a mouse move, of
\* int(smoothed * 10), is made exactly if |smoothed| > 0.1, and the steering
\* path makes no key call and no virtual-pad call.
C31_MouseMoveIsSmoothed ==
    (pc = "steer" /\ cfg.control_mode \in MouseModes) =>
        \A v \in SteerVals, m \in MouseModes, inv \in BOOLEAN :
            LET c == [cfg EXCEPT !.control_mode = m, !.invert_mouse_steering = inv]
                st == handle_steering(SteerState, c, TRUE, v)
                cond == apply_deadzone(v, c.steering_deadzone)
                target == TruncDiv((IF inv THEN -cond ELSE cond) * c.mouse_sensitivity, 1000)
                smoothed == last_steering_value
                              + TruncDiv((target - last_steering_value) * 300, 1000)
            IN  /\ st.ev = IF Abs(smoothed) > 100
                           THEN <<EvVal("move", TruncDiv(smoothed * 10, 1000), TRUE)>>
                           ELSE <<>>
                /\ Abs(smoothed) > 100 => st.last_steering_value = smoothed
                /\ st.calls = <<>>
                /\ st.P = PadSink

\* the second focused tick of the mouse path has moved the mouse, smoothing
\* from the movement of the first
C31_Witness ==
    /\ pc = "pedals" /\ chk = {TRUE} /\ ticks = 2
    /\ cfg.control_mode \in MouseModes
    /\ Len(events) = 1 /\ events[1].op = "move"
    /\ last_steering_value \notin {0, 710, -710}

\* the stick and trigger values of pad g are within the driver's ranges
InDriverRange(g) ==
    /\ \A x \in {g.lx, g.ly, g.rx, g.ry} : x \in -StickMax .. StickMax
    /\ \A t \in {g.lt, g.rt} : t \in 0 .. TriggerMax

\* C32: for every raw input, deadzone, range factor, stick mode and
\* throttle axis, every stick axis value passed to the virtual-pad driver is
\* an integer in [-32767, 32767] and every trigger value one in [0, 255].
C32_PadValuesInRange ==
    calc.op = "virtual_xbox_tick" =>
        InDriverRange(calc.steered) /\ InDriverRange(calc.sent)

\* a steering value beyond the range (-1.0 with range factor 2.0) has been
\* sent as the end of the range, and a pressed throttle as a full trigger
C32_Witness ==
    /\ calc.op = "virtual_xbox_tick"
    /\ calc.value = -1000 /\ calc.deadzone = 0 /\ calc.range = 2000
    /\ calc.stick = "left" /\ calc.axis = "triggers" /\ calc.throttle = -1000
    /\ calc.sent.lx = -StickMax
    /\ calc.sent.rt = TriggerMax

\* C35: in VirtualGamepad mode, at the end of a focused tick the X value last
\* sent for the selected steering stick is the clamped conditioned steering
\* * 32767 truncated, whatever controller_throttle_axis is: the pedal update
\* does not overwrite the steering axis.
C35_SteeringAxisKept ==
    calc.op = "virtual_xbox_tick" =>
        LET s == Clamp(-1000, 1000,
                       TruncDiv(apply_steering_range(apply_deadzone(calc.value, calc.deadzone))
                                * calc.range, 1000))
        IN  SteeringX(calc.sent, calc.stick) = TruncDiv(s * StickMax, 1000)

\* C33: while at least one button mapped to a key is held (focus held, mode
\* and mappings unchanged, key not routed to the pad), the key stays in the
\* pressed set: releasing one of two held buttons mapped to the same key
\* (buttons 0 and 1, both 'space') does not release the key.
C33_SharedKeyStaysPressed ==
    calc.op = "handle_buttons" =>
        /\ (\E b \in DOMAIN calc.first : calc.first[b]) => "space" \in calc.keys1
        /\ (/\ \E b \in DOMAIN calc.first : calc.first[b]
            /\ \E b \in DOMAIN calc.second : calc.second[b]) => "space" \in calc.keys

\* C34: with a device of fewer than two axes the missing pedals count as
\* released: in no tick is the throttle or the brake key pressed, and no
\* non-neutral pedal value is sent to the virtual pad.
C34_MissingPedalsReleased ==
    dev.numaxes < 2 =>
        /\ cfg.throttle_key \notin keys
        /\ cfg.brake_key \notin keys
        /\ gp.ly = 0 /\ gp.lt = 0 /\ gp.rt = 0

\* the injector calls for key k in evs that did not raise
OkCalls(evs, k) ==
    SelectSeq(evs, LAMBDA e : e.key = k /\ e.ok /\ e.op \in {"press", "release"})

\* C36: on the engine thread, between key calls, a key is in
\* current_keys_pressed exactly if the last injector call for it that did
\* not raise was a press; a call that raises changes neither the set nor
\* the key state, so the set is the set of keys the engine holds down.
C36_SetFollowsInjector ==
    [][/\ \A k \in AllKeys :
            LET ok == OkCalls(events', k)
            IN  k \in keys' <=> IF ok = <<>> THEN k \in keys
                                ELSE ok[Len(ok)].op = "press"
        /\ down' = keys']_vars

\* a release has raised and its key is still in the pressed set
C36_Witness ==
    \E i \in 1..Len(events) :
        /\ events[i].op = "release" /\ ~events[i].ok
        /\ events[i].key \in keys /\ events[i].key \in down

\* C37: when a mapped button is released while the game window is unfocused,
\* its key stays in the pressed set as long as the ticks run unfocused, and
\* the first focused handle_buttons that finds the button still released
\* releases it (mode and mappings unchanged, no injector error).
C37_ReleaseAfterRefocus ==
    [][/\ (pc \in TickPcs /\ pc' # pc /\ chk' = {FALSE}) =>
            UNCHANGED <<keys, button_states>>
       /\ (pc = "buttons" /\ pc' = "dpad" /\ chk' = {TRUE}
            /\ cfg.control_mode # VIRTUAL_XBOX) =>
            \A b \in DOMAIN frame'.buttons :
                ~frame'.buttons[b] => cfg.button_mappings[b] \notin keys']_vars

\* an unfocused tick is past handle_buttons with the button released and its
\* key still pressed
C37_Witness ==
    /\ pc = "dpad" /\ chk = {FALSE}
    /\ 0 \in DOMAIN frame.buttons /\ ~frame.buttons[0]
    /\ Get(button_states, 0, FALSE)
    /\ cfg.button_mappings[0] \in keys

\* C38: when a pedal key is changed between ticks while the key bound before
\* is in the pressed set, the old key is released by the end of the next
\* focused tick in which the pedal is inactive.
C38_OldKeyReleased ==
    calc.op = "rebind" =>
        ((/\ calc.old \in calc.keys1
          /\ normalize_pedal(calc.second[calc.field]) <= PedalThreshold)
            => calc.old \notin calc.keys)

\* C39: at the end of every handle_steering_keyboard call, no injector call
\* having raised and no other input bound to 'a' or 'd', the pressed set
\* does not hold both 'a' and 'd', whatever the steering values and times
\* and however keyboard_steering_lfo is switched between ticks.
C39_OneDirectionAtTickEnd ==
    (pc # "steer2" /\ ~faults) => keys \cap SteeringKeys \in {{}, {"a"}, {"d"}}

\* the oscillator's tick has swapped 'a' for 'd' and the call has returned
C39_Witness ==
    /\ pc = "pedals" /\ chk = {TRUE} /\ ~faults /\ ticks = MaxTicks
    /\ cfg.control_mode = KEYBOARD /\ cfg.keyboard_steering_lfo
    /\ keys \cap SteeringKeys = {"d"}
    /\ Count(events, {"release"}, "a") = 1 /\ lfo_state
====
